---- MODULE Spec2Model ----
(***************************************************************************)
(* Model of the device-pairing core of http-volume-control-api:            *)
(* PairingService (src/src/services/pairing-service.ts), the pairing-code  *)
(* registry, the session store with its write-through file, the rate       *)
(* limiter and the periodic cleanup sweep.                                 *)
(*                                                                         *)
(* The service runs on a single-threaded event loop.  Every action below   *)
(* is one synchronous segment of a handler (the code between two awaits),  *)
(* which is atomic in the program.  The only await points are the file     *)
(* operations: the startup read of initializeStorage (which the            *)
(* constructor does not await, so requests are served while it is pending) *)
(* and the writeFile of                                                    *)
(* saveSessions.  A pending writeFile is an element of `inflight`; it      *)
(* completes (WriteLands) at any later moment, and only then does the     *)
(* awaiting operation return to its caller; when the write fails instead   *)
(* (WriteFails) the awaiting operation throws.                             *)
(*                                                                         *)
(* Time is the wall clock in milliseconds (new Date()), advanced by Tick.  *)
(* Session ids and tokens come from crypto.randomBytes (16 and 32 bytes)   *)
(* and are modelled as fresh values; pairing codes come from Math.random   *)
(* over a 32-letter alphabet and are modelled as an arbitrary choice, so   *)
(* two initiate calls may draw the same code.                              *)
(***************************************************************************)
EXTENDS Integers, Sequences, FiniteSets, TLC

(* ------------------------------ bounds --------------------------------- *)
TickMs == 60000                \* granularity of the modelled clock
MaxTicks == 2                  \* the clock stops after MaxTicks ticks
MaxInitiates == 3              \* successful initiate calls per run
MaxTokens == 2                 \* sessions created by complete per run
MaxInflight == 2               \* concurrently pending writeFile calls
SettleTicks == 2               \* ticks after the last request arrives
MaxRequests == 1               \* requests through the session guards per run
MaxCodeLength == 2             \* largest PAIRING_CODE_LENGTH tried
RandomSteps == 64              \* Math.random() returns k / RandomSteps

(* --------------------- configuration (process.env) --------------------- *)
CodeLength == 1                \* PAIRING_CODE_LENGTH
CodeExpirySeconds == 60        \* PAIRING_CODE_EXPIRY
SessionExpirySeconds == 60     \* SESSION_TOKEN_EXPIRY
MaxAttempts == 2               \* PAIRING_MAX_ATTEMPTS
MaxSessions == 2               \* SESSION_MAX_PER_USER

(* -------------------------- program constants -------------------------- *)
RateWindowMs == 60000
SweepPeriodMs == 60000

ERROR_CODES ==
  [PAIRING_CODE_INVALID |-> "PAIRING_CODE_INVALID",
   PAIRING_CODE_EXPIRED |-> "PAIRING_CODE_EXPIRED",
   PAIRING_RATE_LIMITED |-> "PAIRING_RATE_LIMITED",
   SESSION_INVALID |-> "SESSION_INVALID",
   SESSION_LIMIT_REACHED |-> "SESSION_LIMIT_REACHED",
   UNAUTHORIZED |-> "UNAUTHORIZED"]

Undefined == "undefined"       \* JavaScript undefined (an absent optional)

(* ------------------------------ strings -------------------------------- *)
\* A string is a sequence of one-character strings.
Chars == {"A", "2"}            \* letters of the generator's alphabet in use
InputChars == {"A", "a", "2"}  \* what a client may type

UpperChar(c) == IF c = "a" THEN "A" ELSE c

toUpperCase(s) == [i \in DOMAIN s |-> UpperChar(s[i])]

\* every value generatePairingCode can return
GeneratedCodes == [1..CodeLength -> Chars]

InputCodes == [1..CodeLength -> InputChars]

DeviceNames == {"phone"}
Ips == {"ip1", Undefined}      \* origin of an initiate call
CallerIps == {"ip1"}           \* origin of a complete call
UserAgents == {"curl", Undefined}  \* User-Agent header of a complete call
RecordedNames == {"phone", "", Undefined}  \* deviceName of an initiate body
CompleteIps == {"ip2", Undefined}  \* a complete call from elsewhere

\* process.env: the settings the handlers read when they run
EnvValues == {"true", Undefined}

Envs ==
  [SESSION_SLIDING_EXPIRY : EnvValues, SESSION_USER_AGENT_CHECK : EnvValues,
   SESSION_IP_BINDING : EnvValues]

DefaultEnv ==
  [SESSION_SLIDING_EXPIRY |-> Undefined, SESSION_USER_AGENT_CHECK |-> Undefined,
   SESSION_IP_BINDING |-> Undefined]

Tokens == 0..MaxTokens         \* tokens a caller may present

(* --------------------------- code generator ---------------------------- *)
\* an alphabet that still has the letter O
AlphabetWithO ==
  <<"A", "B", "C", "D", "E", "F", "G", "H", "J", "K", "L", "M", "N", "O", "Q",
    "R", "S", "T", "U", "V", "W", "X", "Y", "Z", "2", "3", "4", "5", "6", "7",
    "8", "9">>

\* the string `chars` of generatePairingCode
Alphabet ==
  <<"A", "B", "C", "D", "E", "F", "G", "H", "J", "K", "L", "M", "N", "P", "Q",
    "R", "S", "T", "U", "V", "W", "X", "Y", "Z", "2", "3", "4", "5", "6", "7",
    "8", "9">>

\* the random source each generator of the service calls
RandomSource ==
  [generatePairingCode |-> "Math.random",
   generateToken |-> "crypto.randomBytes",
   generateSessionId |-> "crypto.randomBytes"]

\* the cryptographically secure sources of the platform; Math.random is a
\* general-purpose pseudo-random generator
SecureSources == {"crypto.randomBytes"}

\* str[i], the characters of a string being numbered from 0
At(str, i) == str[i + 1]

\* Math.floor(Math.random() * n) when Math.random() returned k / RandomSteps
floorRandomTimes(k, n) == (k * n) \div RandomSteps

\* the for loop of generatePairingCode from index i on, `draws` being the
\* values Math.random() returns in turn
RECURSIVE codeLoop(_, _, _, _)
codeLoop(i, length, draws, code) ==
  IF i < length
  THEN codeLoop(i + 1, length, draws,
                Append(code, At(Alphabet,
                                floorRandomTimes(draws[i + 1],
                                                 Len(Alphabet)))))
  ELSE code

\* generatePairingCode with PAIRING_CODE_LENGTH = length
generatePairingCode(length, draws) == codeLoop(0, length, draws, << >>)

(* ------------------------------- maps ---------------------------------- *)
EmptyMap == << >>

MapSet(m, k, v) == [x \in (DOMAIN m) \cup {k} |-> IF x = k THEN v ELSE m[x]]

MapDelete(m, k) == [x \in (DOMAIN m) \ {k} |-> m[x]]

Size(m) == Cardinality(DOMAIN m)

(* --------------------------- serialization ----------------------------- *)
\* Date.prototype.toISOString and new Date(isoString): a millisecond
\* timestamp becomes a textual date-time and back.
toISOString(t) == <<"ISO", t>>

ParseDate(s) == s[2]

SerializeSession(s) ==
  [s EXCEPT !.createdAt = toISOString(s.createdAt),
            !.lastUsedAt = toISOString(s.lastUsedAt),
            !.expiresAt = toISOString(s.expiresAt)]

DeserializeSession(r) ==
  [r EXCEPT !.createdAt = ParseDate(r.createdAt),
            !.lastUsedAt = ParseDate(r.lastUsedAt),
            !.expiresAt = ParseDate(r.expiresAt)]

\* the JSON text saveSessions hands to writeFile, as a map id -> record
Snapshot(sess) == [id \in DOMAIN sess |-> SerializeSession(sess[id])]

(* ------------------------------- state --------------------------------- *)
VARIABLES
  env,            \* process.env
  now,            \* wall clock, ms
  pairingCodes,   \* Map<string, PairingCode>
  sessions,       \* Map<string, Session>
  rateLimitMap,   \* Map<string, {attempts, resetAt}>
  file,           \* contents of data/sessions.json
  startup,        \* initializeStorage: its phase and the text readFile returned
  inflight,       \* pending writeFile calls and the operations awaiting them
  nextSweep,      \* earliest time the interval timer fires next
  nextId,         \* next fresh session id
  nextToken,      \* next fresh token
  issued,         \* history: sessionId -> what initiate returned
  consumed,       \* history: sessionIds whose complete call returned a session
  revoked,        \* history: tokens of sessions whose revoke call has returned
  returned,       \* history: the sessions complete calls have returned
  expiredSeen,    \* history: tokens validate has found expired
  thrown,         \* history: the operations that have ended with an error
  answers,        \* history: what the session guards have answered
  draft,          \* history: the pairing code generatePairingCode has drawn
  attemptsSeen    \* history: per origin, the window's first call and call count

vars == <<env, now, pairingCodes, sessions, rateLimitMap, file, startup,
          inflight, nextSweep, nextId, nextToken, issued, consumed, revoked,
          returned, expiredSeen, thrown, answers, draft, attemptsSeen>>

history ==
  <<issued, consumed, revoked, returned, expiredSeen, thrown, answers, draft,
    attemptsSeen>>

NoDraft == [length |-> 0, code |-> << >>]

NoCode == << >>

\* a session written by an earlier run of the service
OldSession ==
  [id |-> 0, token |-> 0, deviceName |-> "tablet", createdAt |-> 0,
   lastUsedAt |-> 0, expiresAt |-> SessionExpirySeconds * 1000,
   ipAddress |-> Undefined, userAgent |-> Undefined]

InitialFiles == {EmptyMap, Snapshot(MapSet(EmptyMap, OldSession.id, OldSession))}

Init ==
  /\ env \in Envs
  /\ now = 0
  /\ pairingCodes = EmptyMap
  /\ sessions = EmptyMap
  /\ rateLimitMap = EmptyMap
  /\ file \in InitialFiles
  /\ startup = [phase |-> "reading", data |-> EmptyMap]
  /\ inflight = {}
  /\ nextSweep = SweepPeriodMs
  /\ nextId = 1
  /\ nextToken = 1
  /\ issued = EmptyMap
  /\ consumed = {}
  /\ revoked = {}
  /\ returned = {}
  /\ expiredSeen = {}
  /\ thrown = {}
  /\ answers = {}
  /\ draft = NoDraft
  /\ attemptsSeen = EmptyMap

(* ---------------------------- rate limiter ----------------------------- *)
\* checkRateLimit denying only after the limit was exceeded (> for >=)
checkRateLimitOffByOne(ipAddress) ==
  IF \/ ipAddress \notin DOMAIN rateLimitMap
     \/ rateLimitMap[ipAddress].resetAt < now
  THEN [allowed |-> TRUE,
        map |-> MapSet(rateLimitMap, ipAddress,
                       [attempts |-> 1, resetAt |-> now + RateWindowMs])]
  ELSE IF rateLimitMap[ipAddress].attempts > MaxAttempts
  THEN [allowed |-> FALSE, map |-> rateLimitMap]
  ELSE [allowed |-> TRUE,
        map |-> [rateLimitMap EXCEPT ![ipAddress].attempts = @ + 1]]

\* checkRateLimit starting the minute again with every denied call
checkRateLimitExtendsOnDenial(ipAddress) ==
  IF \/ ipAddress \notin DOMAIN rateLimitMap
     \/ rateLimitMap[ipAddress].resetAt < now
  THEN [allowed |-> TRUE,
        map |-> MapSet(rateLimitMap, ipAddress,
                       [attempts |-> 1, resetAt |-> now + RateWindowMs])]
  ELSE IF rateLimitMap[ipAddress].attempts >= MaxAttempts
  THEN [allowed |-> FALSE,
        map |-> [rateLimitMap EXCEPT
                   ![ipAddress].resetAt = now + RateWindowMs]]
  ELSE [allowed |-> TRUE,
        map |-> [rateLimitMap EXCEPT ![ipAddress].attempts = @ + 1]]

\* checkRateLimit: the boolean it returns and the rateLimitMap it leaves
checkRateLimit(ipAddress) ==
  IF \/ ipAddress \notin DOMAIN rateLimitMap
     \/ rateLimitMap[ipAddress].resetAt < now
  THEN [allowed |-> TRUE,
        map |-> MapSet(rateLimitMap, ipAddress,
                       [attempts |-> 1, resetAt |-> now + RateWindowMs])]
  ELSE IF rateLimitMap[ipAddress].attempts >= MaxAttempts
  THEN [allowed |-> FALSE, map |-> rateLimitMap]
  ELSE [allowed |-> TRUE,
        map |-> [rateLimitMap EXCEPT ![ipAddress].attempts = @ + 1]]

(* --------------------------- pairing registry -------------------------- *)
\* initiatePairing storing the pairing code before it asks the rate limiter
initiatePairingStoresFirst(deviceName, ipAddress, code, sessionId) ==
  LET limit == IF ipAddress # Undefined
               THEN checkRateLimit(ipAddress)
               ELSE [allowed |-> TRUE, map |-> rateLimitMap]
      stored == MapSet(pairingCodes, code,
                       [code |-> code, sessionId |-> sessionId,
                        createdAt |-> now,
                        expiresAt |-> now + CodeExpirySeconds * 1000,
                        deviceName |-> deviceName,
                        ipAddress |-> ipAddress])
  IN [out |-> IF limit.allowed THEN "ok"
              ELSE ERROR_CODES.PAIRING_RATE_LIMITED,
      codes |-> stored, rate |-> limit.map]

\* initiatePairing, with `code` the value generatePairingCode drew and
\* `sessionId` the value generateSessionId drew: the outcome and the maps
\* the call leaves behind
initiatePairing(deviceName, ipAddress, code, sessionId) ==
  LET limit == IF ipAddress # Undefined
               THEN checkRateLimit(ipAddress)
               ELSE [allowed |-> TRUE, map |-> rateLimitMap]
  IN IF ~limit.allowed
     THEN [out |-> ERROR_CODES.PAIRING_RATE_LIMITED,
           codes |-> pairingCodes, rate |-> limit.map]
     ELSE [out |-> "ok",
           codes |-> MapSet(pairingCodes, code,
                            [code |-> code, sessionId |-> sessionId,
                             createdAt |-> now,
                             expiresAt |-> now + CodeExpirySeconds * 1000,
                             deviceName |-> deviceName,
                             ipAddress |-> ipAddress]),
           rate |-> limit.map]

\* history of the calls one origin made in its current window: the window
\* opens with the first call and closes once 60 s have passed; `denied`
\* remembers that some call of the origin was beyond MaxAttempts
CountAttempt(ipAddress) ==
  IF ipAddress = Undefined THEN attemptsSeen
  ELSE IF ipAddress \notin DOMAIN attemptsSeen
  THEN MapSet(attemptsSeen, ipAddress,
              [first |-> now, calls |-> 1, denied |-> FALSE])
  ELSE IF now > attemptsSeen[ipAddress].first + RateWindowMs
  THEN MapSet(attemptsSeen, ipAddress,
              [first |-> now, calls |-> 1,
               denied |-> attemptsSeen[ipAddress].denied])
  ELSE [attemptsSeen EXCEPT
          ![ipAddress].calls = IF @ > MaxAttempts THEN @ ELSE @ + 1,
          ![ipAddress].denied =
             @ \/ attemptsSeen[ipAddress].calls >= MaxAttempts]

\* one call of generatePairingCode
DrawCode(length, draws) ==
  /\ draft = NoDraft
  /\ draft' = [length |-> length, code |-> generatePairingCode(length, draws)]
  /\ UNCHANGED <<env, now, pairingCodes, sessions, rateLimitMap, file, startup,
                 inflight, nextSweep, nextId, nextToken, issued, consumed,
                 revoked, returned, expiredSeen, thrown, answers, attemptsSeen>>

InitiatePairing(deviceName, ipAddress, code) ==
  LET r == initiatePairing(deviceName, ipAddress, code, nextId) IN
  /\ nextId <= MaxInitiates
  /\ pairingCodes' = r.codes
  /\ rateLimitMap' = r.rate
  /\ attemptsSeen' = CountAttempt(ipAddress)
  /\ IF r.out = "ok"
     THEN /\ nextId' = nextId + 1
          /\ issued' = MapSet(issued, nextId,
                              [code |-> code,
                               expiresAt |-> r.codes[code].expiresAt])
     ELSE /\ UNCHANGED <<nextId, issued>>
  /\ UNCHANGED <<env, now, sessions, file, startup, inflight, nextSweep, nextToken,
                 consumed, revoked, returned, expiredSeen, thrown, answers,
                 draft>>

\* the lookup of completePairing: the registry is keyed by the upper-case code
lookupCode(code) == toUpperCase(code)

\* a correlation check that accepts any sessionId
correlationIgnored(pairingCode, sessionId) == TRUE

\* the correlation check of completePairing
correlationMatches(pairingCode, sessionId) == pairingCode.sessionId = sessionId

\* an expiry check that never fires
codeNeverExpires(pairingCode) == FALSE

\* an expiry check with the comparison turned round
codeExpiredInverted(pairingCode) == pairingCode.expiresAt > now

\* the expiry check of completePairing
codeExpired(pairingCode) == pairingCode.expiresAt < now

\* a session-limit check that lets one session too many in (> for >=)
atCapacityOffByOne(sess) == Size(sess) > MaxSessions

\* the session-limit check of completePairing
atCapacity(sess) == Size(sess) >= MaxSessions

\* the left operand of || is skipped: undefined or the empty string
Falsy(value) == value \in {Undefined, ""}

\* a Session object whose address is the pairing code's when it has one
newSessionCodeAddressFirst(pairingCode, sessionId, ipAddress, token) ==
  [id |-> sessionId, token |-> token,
   deviceName |-> IF ~Falsy(pairingCode.deviceName)
                  THEN pairingCode.deviceName
                  ELSE "Unknown Device",
   createdAt |-> now, lastUsedAt |-> now,
   expiresAt |-> now + SessionExpirySeconds * 1000,
   ipAddress |-> IF ~Falsy(pairingCode.ipAddress)
                 THEN pairingCode.ipAddress
                 ELSE ipAddress,
   userAgent |-> Undefined]

\* a Session object that expires the moment it is created
newSessionExpiringAtOnce(pairingCode, sessionId, ipAddress, token) ==
  [id |-> sessionId, token |-> token,
   deviceName |-> IF ~Falsy(pairingCode.deviceName)
                  THEN pairingCode.deviceName
                  ELSE "Unknown Device",
   createdAt |-> now, lastUsedAt |-> now,
   expiresAt |-> now,
   ipAddress |-> IF ~Falsy(ipAddress)
                 THEN ipAddress
                 ELSE pairingCode.ipAddress,
   userAgent |-> Undefined]

\* the Session object completePairing builds
newSession(pairingCode, sessionId, ipAddress, token) ==
  [id |-> sessionId, token |-> token,
   deviceName |-> IF ~Falsy(pairingCode.deviceName)
                  THEN pairingCode.deviceName
                  ELSE "Unknown Device",
   createdAt |-> now, lastUsedAt |-> now,
   expiresAt |-> now + SessionExpirySeconds * 1000,
   ipAddress |-> IF ~Falsy(ipAddress)
                 THEN ipAddress
                 ELSE pairingCode.ipAddress,
   userAgent |-> Undefined]

\* a completePairing that looks at the expiry before the correlation id
completePairingExpiryFirst(code, sessionId, ipAddress, token) ==
  LET key == lookupCode(code)
      unchanged(out) == [out |-> out, codes |-> pairingCodes, sess |-> sessions]
  IN IF key \notin DOMAIN pairingCodes
     THEN unchanged(ERROR_CODES.PAIRING_CODE_INVALID)
     ELSE LET pairingCode == pairingCodes[key] IN
          IF codeExpired(pairingCode)
          THEN [out |-> ERROR_CODES.PAIRING_CODE_EXPIRED,
                codes |-> MapDelete(pairingCodes, code),
                sess |-> sessions]
          ELSE IF ~correlationMatches(pairingCode, sessionId)
          THEN unchanged(ERROR_CODES.PAIRING_CODE_INVALID)
          ELSE IF atCapacity(sessions)
          THEN unchanged(ERROR_CODES.SESSION_LIMIT_REACHED)
          ELSE [out |-> "ok",
                codes |-> MapDelete(pairingCodes, code),
                sess |-> MapSet(sessions, sessionId,
                          newSession(pairingCode, sessionId, ipAddress, token))]

\* completePairing up to its await: the outcome (an error code, or "ok" when
\* the session was stored and saveSessions was called) and the maps it leaves.
\* The entry is looked up under the upper-case code and deleted under the
\* code as the caller typed it.
completePairing(code, sessionId, ipAddress, token) ==
  LET key == lookupCode(code)
      unchanged(out) == [out |-> out, codes |-> pairingCodes, sess |-> sessions]
  IN IF key \notin DOMAIN pairingCodes
     THEN unchanged(ERROR_CODES.PAIRING_CODE_INVALID)
     ELSE LET pairingCode == pairingCodes[key] IN
          IF ~correlationMatches(pairingCode, sessionId)
          THEN unchanged(ERROR_CODES.PAIRING_CODE_INVALID)
          ELSE IF codeExpired(pairingCode)
          THEN [out |-> ERROR_CODES.PAIRING_CODE_EXPIRED,
                codes |-> MapDelete(pairingCodes, code),
                sess |-> sessions]
          ELSE IF atCapacity(sessions)
          THEN unchanged(ERROR_CODES.SESSION_LIMIT_REACHED)
          ELSE [out |-> "ok",
                codes |-> MapDelete(pairingCodes, code),
                sess |-> MapSet(sessions, sessionId,
                          newSession(pairingCode, sessionId, ipAddress, token))]

\* a pending writeFile and the operation that awaits it.  For a complete
\* call, `agent` is what the route will store in the returned Session object
\* and `detached` tells that the map no longer holds that object.
Pending(op, code, sid, token, res, sess, gone, agent) ==
  [op |-> op, code |-> code, sid |-> sid, token |-> token, res |-> res,
   snap |-> Snapshot(sess), gone |-> gone, agent |-> agent,
   detached |-> FALSE]

\* the User-Agent the /complete route stores in the session after
\* completePairing has returned (neither the header nor process.env changes
\* while the call is pending)
storedUserAgent(userAgent) ==
  IF userAgent # Undefined /\ env.SESSION_USER_AGENT_CHECK = "true"
  THEN userAgent
  ELSE Undefined

\* the catch block of POST /complete: the response sent for an error thrown
\* by completePairing; any other error goes to next(error)
completeErrorResponse(out) ==
  IF out = ERROR_CODES.PAIRING_CODE_INVALID
  THEN [status |-> "400", error |-> "Invalid pairing code", code |-> out]
  ELSE IF out = ERROR_CODES.PAIRING_CODE_EXPIRED
  THEN [status |-> "400", error |-> "Pairing code has expired", code |-> out]
  ELSE IF out = ERROR_CODES.SESSION_LIMIT_REACHED
  THEN [status |-> "400", error |-> "Maximum number of sessions reached",
        code |-> out]
  ELSE [status |-> "next", error |-> out, code |-> "none"]

\* POST /complete: completePairing up to its await
CompletePairing(code, sessionId, ipAddress, userAgent) ==
  LET r == completePairing(code, sessionId, ipAddress, nextToken) IN
  /\ pairingCodes' = r.codes
  /\ sessions' = r.sess
  /\ IF r.out = "ok"
     THEN /\ nextToken <= MaxTokens
          /\ Cardinality(inflight) < MaxInflight
          /\ nextToken' = nextToken + 1
          /\ inflight' = inflight \cup
               {Pending("complete", toUpperCase(code), sessionId, nextToken,
                        "session", r.sess, {}, storedUserAgent(userAgent))}
     ELSE /\ UNCHANGED <<nextToken, inflight>>
  /\ UNCHANGED <<env, now, rateLimitMap, file, startup, nextSweep, nextId, history>>

(* ---------------------------- session store ---------------------------- *)
\* sliding expiry switched off whatever the environment says
SlidingExpiryIgnored == FALSE

\* process.env.SESSION_SLIDING_EXPIRY === 'true'
SlidingExpiry == env.SESSION_SLIDING_EXPIRY = "true"

\* an expiry check that never fires
sessionNeverExpires(session) == FALSE

\* the expiry check of validateSession and cleanupExpiredSessions
sessionExpired(session) == session.expiresAt < now

\* cleanupExpiredSessions: the sessions it keeps
cleanupExpiredSessions(sess) ==
  [id \in {i \in DOMAIN sess : ~sessionExpired(sess[i])} |-> sess[id]]

\* a cleanupExpiredCodes that removes nothing
cleanupExpiredCodesKeepsAll(codes) == codes

\* a cleanupExpiredCodes that also removes the codes expiring just now
cleanupExpiredCodesEager(codes) ==
  [c \in {k \in DOMAIN codes : ~(codes[k].expiresAt <= now)} |-> codes[c]]

\* cleanupExpiredCodes: the pairing codes it keeps
cleanupExpiredCodes(codes) ==
  [c \in {k \in DOMAIN codes : ~(codes[k].expiresAt < now)} |-> codes[c]]

\* cleanupRateLimits: the windows it keeps
cleanupRateLimits(limits) ==
  [ip \in {k \in DOMAIN limits : ~(limits[k].resetAt < now)} |-> limits[ip]]

\* the fire-and-forget saveSessions of cleanupExpiredSessions
CleanupSave(before, after) ==
  IF Size(after) < Size(before)
  THEN {Pending("cleanup", NoCode, 0, 0, "none", after, {}, Undefined)}
  ELSE {}

\* validateSession answering null for an expired session without deleting it
validateSessionKeepsExpired(token) ==
  LET hits == {id \in DOMAIN sessions : sessions[id].token = token} IN
  IF hits = {}
  THEN [out |-> "null", id |-> 0, save |-> FALSE, sess |-> sessions]
  ELSE LET id == CHOOSE i \in hits : TRUE IN
       IF sessionExpired(sessions[id])
       THEN [out |-> "null", id |-> id, save |-> TRUE, sess |-> sessions]
       ELSE [out |-> "session", id |-> id, save |-> TRUE,
             sess |-> [sessions EXCEPT
                        ![id].lastUsedAt = now,
                        ![id].expiresAt =
                           IF SlidingExpiry
                           THEN now + SessionExpirySeconds * 1000
                           ELSE @]]

\* validateSession up to its await: what it will return, the id of the
\* session found, whether saveSessions is called, and the sessions it leaves
validateSession(token) ==
  LET hits == {id \in DOMAIN sessions : sessions[id].token = token} IN
  IF hits = {}
  THEN [out |-> "null", id |-> 0, save |-> FALSE, sess |-> sessions]
  ELSE LET id == CHOOSE i \in hits : TRUE IN
       IF sessionExpired(sessions[id])
       THEN [out |-> "null", id |-> id, save |-> TRUE,
             sess |-> MapDelete(sessions, id)]
       ELSE [out |-> "session", id |-> id, save |-> TRUE,
             sess |-> [sessions EXCEPT
                        ![id].lastUsedAt = now,
                        ![id].expiresAt =
                           IF SlidingExpiry
                           THEN now + SessionExpirySeconds * 1000
                           ELSE @]]

ValidateSession(token) ==
  LET r == validateSession(token) IN
  /\ sessions' = r.sess
  /\ IF r.save
     THEN /\ Cardinality(inflight) < MaxInflight
          /\ inflight' = inflight \cup
               {Pending("validate", NoCode, r.id, token, r.out, r.sess, {},
                        Undefined)}
     ELSE /\ UNCHANGED inflight
  /\ expiredSeen' = IF r.out = "null" /\ r.save
                    THEN expiredSeen \cup {token} ELSE expiredSeen
  /\ UNCHANGED <<env, now, pairingCodes, rateLimitMap, file, startup, nextSweep,
                 nextId, nextToken, issued, consumed, revoked, returned,
                 thrown, answers, draft, attemptsSeen>>

\* getSessions: sweeps expired sessions, then returns the rest at once
GetSessions ==
  LET kept == cleanupExpiredSessions(sessions) IN
  /\ Cardinality(inflight \cup CleanupSave(sessions, kept)) <= MaxInflight
  /\ sessions' = kept
  /\ inflight' = inflight \cup CleanupSave(sessions, kept)
  /\ UNCHANGED <<env, now, pairingCodes, rateLimitMap, file, startup, nextSweep,
                 nextId, nextToken, history>>

\* a revokeSession that reports a removal whether or not the id was there
revokeSessionAlwaysTrue(sessionId) ==
  [deleted |-> TRUE, sess |-> MapDelete(sessions, sessionId)]

\* revokeSession up to its await
revokeSession(sessionId) ==
  [deleted |-> sessionId \in DOMAIN sessions,
   sess |-> MapDelete(sessions, sessionId)]

RevokeSession(sessionId) ==
  LET r == revokeSession(sessionId) IN
  /\ sessions' = r.sess
  /\ IF r.deleted
     THEN /\ Cardinality(inflight) < MaxInflight
          /\ inflight' = inflight \cup
               {Pending("revoke", NoCode, sessionId, 0, "true", r.sess,
                        {sessions[sessionId].token}, Undefined)}
     ELSE /\ UNCHANGED inflight
  /\ UNCHANGED <<env, now, pairingCodes, rateLimitMap, file, startup, nextSweep,
                 nextId, nextToken, history>>

\* revokeAllSessions up to its await
revokeAllSessions == [count |-> Size(sessions), sess |-> EmptyMap]

RevokeAllSessions ==
  LET r == revokeAllSessions IN
  /\ Cardinality(inflight) < MaxInflight
  /\ sessions' = r.sess
  /\ inflight' = inflight \cup
       {Pending("revokeAll", NoCode, 0, 0, r.count, r.sess,
                {sessions[id].token : id \in DOMAIN sessions}, Undefined)}
  /\ UNCHANGED <<env, now, pairingCodes, rateLimitMap, file, startup, nextSweep,
                 nextId, nextToken, history>>

(* ---------------------------- session guard ---------------------------- *)
\* req.headers.authorization: its first seven characters and the rest
NoHeader == [head |-> "", tail |-> 0]

AuthHeaders == {NoHeader} \cup [head : {"Bearer ", "Basic "}, tail : Tokens]

ClientIps == {"ip1", "ip2"}    \* req.ip of a guarded request
ClientAgents == {"curl", "wget"}  \* its User-Agent header

GuardOps == {"sessionAuth", "optionalSessionAuth"}

\* what a guard does with the request: the response it sends (status and
\* code), how often it calls next(), and the req.session it attaches
Reply(status, code, next, attached, ctx) ==
  [status |-> status, code |-> code, next |-> next, attached |-> attached,
   ctx |-> ctx]

NoContext == [id |-> 0, deviceName |-> Undefined]

Context(session) == [id |-> session.id, deviceName |-> session.deviceName]

\* what validateSession gave the guard
NotLookedUp ==
  [out |-> "none", id |-> 0, deviceName |-> Undefined,
   ipAddress |-> Undefined, userAgent |-> Undefined]

Found(out, session) ==
  [out |-> out, id |-> session.id, deviceName |-> session.deviceName,
   ipAddress |-> session.ipAddress, userAgent |-> session.userAgent]

\* one request through a guard and its outcome
Answer(guard, authHeader, clientIp, clientUserAgent, found, reply) ==
  [guard |-> guard, header |-> authHeader, ip |-> clientIp,
   agent |-> clientUserAgent, found |-> found, reply |-> reply]

\* binding checks that let every request through
bindingChecksSkipped(session, clientIp, clientUserAgent) ==
  Reply("none", "none", 1, TRUE, Context(session))

\* the binding checks of sessionAuth on the session validateSession returned
bindingChecks(session, clientIp, clientUserAgent) ==
  IF /\ env.SESSION_IP_BINDING = "true"
     /\ session.ipAddress # Undefined
     /\ clientIp # session.ipAddress
  THEN Reply("401", ERROR_CODES.SESSION_INVALID, 0, FALSE, NoContext)
  ELSE IF /\ env.SESSION_USER_AGENT_CHECK = "true"
          /\ session.userAgent # Undefined
          /\ clientUserAgent # session.userAgent
  THEN Reply("401", ERROR_CODES.SESSION_INVALID, 0, FALSE, NoContext)
  ELSE Reply("none", "none", 1, TRUE, Context(session))

\* a sessionAuth that treats an unknown token as an anonymous caller
sessionAuthLenient(authHeader, clientIp, clientUserAgent) ==
  IF authHeader = NoHeader \/ authHeader.head # "Bearer "
  THEN [validates |-> FALSE, token |-> 0, id |-> 0, save |-> FALSE,
        sess |-> sessions, found |-> NotLookedUp,
        reply |-> Reply("401", ERROR_CODES.UNAUTHORIZED, 0, FALSE, NoContext)]
  ELSE LET r == validateSession(authHeader.tail) IN
       [validates |-> TRUE, token |-> authHeader.tail, id |-> r.id,
        save |-> r.save, sess |-> r.sess,
        found |-> IF r.out = "null" THEN [NotLookedUp EXCEPT !.out = "null"]
                  ELSE Found("session", r.sess[r.id]),
        reply |-> IF r.out = "null"
                  THEN Reply("none", "none", 1, FALSE, NoContext)
                  ELSE bindingChecks(r.sess[r.id], clientIp, clientUserAgent)]

\* sessionAuth up to the await of validateSession: whether it validates, and
\* what it answers once validateSession has resolved
sessionAuth(authHeader, clientIp, clientUserAgent) ==
  IF authHeader = NoHeader \/ authHeader.head # "Bearer "
  THEN [validates |-> FALSE, token |-> 0, id |-> 0, save |-> FALSE,
        sess |-> sessions, found |-> NotLookedUp,
        reply |-> Reply("401", ERROR_CODES.UNAUTHORIZED, 0, FALSE, NoContext)]
  ELSE LET r == validateSession(authHeader.tail) IN
       [validates |-> TRUE, token |-> authHeader.tail, id |-> r.id,
        save |-> r.save, sess |-> r.sess,
        found |-> IF r.out = "null" THEN [NotLookedUp EXCEPT !.out = "null"]
                  ELSE Found("session", r.sess[r.id]),
        reply |-> IF r.out = "null"
                  THEN Reply("401", ERROR_CODES.SESSION_INVALID, 0, FALSE,
                             NoContext)
                  ELSE bindingChecks(r.sess[r.id], clientIp, clientUserAgent)]

\* an optional guard that answers 401 when the token is not found
optionalSessionAuthStrict(authHeader) ==
  IF authHeader = NoHeader \/ authHeader.head # "Bearer "
  THEN [validates |-> FALSE, token |-> 0, id |-> 0, save |-> FALSE,
        sess |-> sessions, found |-> NotLookedUp,
        reply |-> Reply("none", "none", 1, FALSE, NoContext)]
  ELSE LET r == validateSession(authHeader.tail) IN
       [validates |-> TRUE, token |-> authHeader.tail, id |-> r.id,
        save |-> r.save, sess |-> r.sess,
        found |-> IF r.out = "null" THEN [NotLookedUp EXCEPT !.out = "null"]
                  ELSE Found("session", r.sess[r.id]),
        reply |-> IF r.out = "null"
                  THEN Reply("401", ERROR_CODES.SESSION_INVALID, 0, FALSE,
                             NoContext)
                  ELSE Reply("none", "none", 1, TRUE, Context(r.sess[r.id]))]

\* optionalSessionAuth up to the await of validateSession
optionalSessionAuth(authHeader) ==
  IF authHeader = NoHeader \/ authHeader.head # "Bearer "
  THEN [validates |-> FALSE, token |-> 0, id |-> 0, save |-> FALSE,
        sess |-> sessions, found |-> NotLookedUp,
        reply |-> Reply("none", "none", 1, FALSE, NoContext)]
  ELSE LET r == validateSession(authHeader.tail) IN
       [validates |-> TRUE, token |-> authHeader.tail, id |-> r.id,
        save |-> r.save, sess |-> r.sess,
        found |-> IF r.out = "null" THEN [NotLookedUp EXCEPT !.out = "null"]
                  ELSE Found("session", r.sess[r.id]),
        reply |-> IF r.out = "null"
                  THEN Reply("none", "none", 1, FALSE, NoContext)
                  ELSE Reply("none", "none", 1, TRUE, Context(r.sess[r.id]))]

\* a token reaches a client when the complete call that made it returns
TokenKnown(token) ==
  ~\E p \in inflight : p.op = "complete" /\ p.token = token

\* one request through a guard: g is what the guard computed, a the answer
\* it gives when validateSession resolves
Guard(g, a) ==
  /\ Cardinality(answers) + Cardinality({p \in inflight : p.op \in GuardOps})
       < MaxRequests
  /\ g.validates => TokenKnown(g.token)
  /\ sessions' = g.sess
  /\ expiredSeen' = IF g.found.out = "null" /\ g.save
                    THEN expiredSeen \cup {g.token} ELSE expiredSeen
  /\ IF g.save
     THEN /\ inflight' = inflight \cup
               {Pending(a.guard, NoCode, g.id, g.token, a, g.sess, {},
                        Undefined)}
          /\ UNCHANGED answers
     ELSE /\ answers' = answers \cup {a}
          /\ UNCHANGED inflight
  /\ UNCHANGED <<env, now, pairingCodes, rateLimitMap, file, startup, nextSweep,
                 nextId, nextToken, issued, consumed, revoked, returned,
                 thrown, draft, attemptsSeen>>

SessionAuth(authHeader, clientIp, clientUserAgent) ==
  LET g == sessionAuth(authHeader, clientIp, clientUserAgent) IN
  Guard(g, Answer("sessionAuth", authHeader, clientIp, clientUserAgent,
                  g.found, g.reply))

OptionalSessionAuth(authHeader, clientIp, clientUserAgent) ==
  LET g == optionalSessionAuth(authHeader) IN
  Guard(g, Answer("optionalSessionAuth", authHeader, clientIp,
                  clientUserAgent, g.found, g.reply))

\* the catch handler of a guard whose validateSession rejected
guardCatch(a) ==
  [a EXCEPT !.found.out = "error",
            !.reply = IF a.guard = "sessionAuth"
                      THEN Reply("500", "none", 0, FALSE, NoContext)
                      ELSE Reply("none", "none", 1, FALSE, NoContext)]

(* ----------------------------- persistence ----------------------------- *)
\* the Session object a complete call returned is still the one in the map
Attached(p) ==
  /\ ~p.detached
  /\ p.sid \in DOMAIN sessions
  /\ sessions[p.sid].token = p.token

\* a route that looks the session up again after the save and puts it back
\* into the map with the User-Agent
storeUserAgentByLookup(p) ==
  IF p.op = "complete" /\ p.agent # Undefined
  THEN MapSet(sessions, p.sid,
              [DeserializeSession(p.snap[p.sid]) EXCEPT !.userAgent = p.agent])
  ELSE sessions

\* the sessions once the /complete route has run `session.userAgent = ...`
\* on the object completePairing returned
storeUserAgent(p) ==
  IF p.op = "complete" /\ p.agent # Undefined /\ Attached(p)
  THEN [sessions EXCEPT ![p.sid].userAgent = p.agent]
  ELSE sessions

\* what the caller of a complete call gets: the Session as it was written
ReturnedSession(p) ==
  [correlationId |-> p.sid, id |-> p.snap[p.sid].id,
   token |-> p.snap[p.sid].token, deviceName |-> p.snap[p.sid].deviceName,
   expiresAt |-> ParseDate(p.snap[p.sid].expiresAt)]

\* a pending writeFile completes: the file holds the text handed to it, and
\* the operation awaiting it returns
WriteLands(p) ==
  /\ p \in inflight
  /\ inflight' = inflight \ {p}
  /\ file' = p.snap
  /\ sessions' = storeUserAgent(p)
  /\ consumed' = IF p.op = "complete" THEN consumed \cup {p.sid} ELSE consumed
  /\ revoked' = IF p.op \in {"revoke", "revokeAll"}
                THEN revoked \cup p.gone ELSE revoked
  /\ returned' = IF p.op = "complete"
                 THEN returned \cup {ReturnedSession(p)} ELSE returned
  /\ answers' = IF p.op \in GuardOps THEN answers \cup {p.res} ELSE answers
  /\ UNCHANGED <<env, now, pairingCodes, rateLimitMap, startup, nextSweep,
                 nextId, nextToken, issued, expiredSeen, thrown, draft,
                 attemptsSeen>>

\* the operation that rejects when a save is rejected
Rejected(p) == IF p.op \in GuardOps THEN "validate" ELSE p.op

\* a pending writeFile is rejected (the file cannot be opened for writing)
\* and leaves the file as it was: saveSessions rejects, so complete,
\* validate, revoke and revokeAll reject with the error, while the sweep's
\* save has a catch handler that logs it and a guard's catch handler answers
WriteFails(p) ==
  /\ p \in inflight
  /\ inflight' = inflight \ {p}
  /\ thrown' = IF p.op = "cleanup" THEN thrown ELSE thrown \cup {Rejected(p)}
  /\ answers' = IF p.op \in GuardOps
                THEN answers \cup {guardCatch(p.res)} ELSE answers
  /\ UNCHANGED <<env, now, pairingCodes, sessions, rateLimitMap, file, startup,
                 nextSweep, nextId, nextToken, issued, consumed, revoked,
                 returned, expiredSeen, draft, attemptsSeen>>

\* the readFile of initializeStorage completes with the text of the file as
\* it is now; the continuation that parses it runs later (LoadSessions)
ReadSessionsFile ==
  /\ startup.phase = "reading"
  /\ startup' = [phase |-> "read", data |-> file]
  /\ UNCHANGED <<env, now, pairingCodes, sessions, rateLimitMap, file, inflight,
                 nextSweep, nextId, nextToken, history>>

\* the sessions in the map once every record of the file has been put into it
LoadedSessions(contents) ==
  [id \in (DOMAIN sessions) \cup (DOMAIN contents) |->
     IF id \in DOMAIN contents
     THEN DeserializeSession(contents[id])
     ELSE sessions[id]]

\* initializeStorage after its readFile: every record of the file is put
\* into the map, then expired sessions are swept
initializeStorage(contents) == cleanupExpiredSessions(LoadedSessions(contents))

\* pending complete calls after the load: sessions.set(session.id, {...})
\* puts a new object into the map for every id of the file
Detach(pending, ids) ==
  {IF p.op = "complete" /\ p.sid \in ids THEN [p EXCEPT !.detached = TRUE]
   ELSE p : p \in pending}

LoadSessions ==
  LET kept == initializeStorage(startup.data)
      saves == CleanupSave(LoadedSessions(startup.data), kept)
  IN
  /\ startup.phase = "read"
  /\ Cardinality(inflight \cup saves) <= MaxInflight
  /\ startup' = [phase |-> "done", data |-> EmptyMap]
  /\ sessions' = kept
  /\ inflight' = Detach(inflight, DOMAIN startup.data) \cup saves
  /\ UNCHANGED <<env, now, pairingCodes, rateLimitMap, file, nextSweep, nextId,
                 nextToken, history>>

\* the process is stopped with no write pending and started again: a new
\* PairingService with empty maps whose initializeStorage reads the file,
\* puts its sessions into the map and sweeps the expired ones, here before
\* the first request is served
Restart ==
  LET loaded == [id \in DOMAIN file |-> DeserializeSession(file[id])]
      kept == cleanupExpiredSessions(loaded)
  IN
  /\ inflight = {}
  /\ sessions' = kept
  /\ inflight' = CleanupSave(loaded, kept)
  /\ pairingCodes' = EmptyMap
  /\ rateLimitMap' = EmptyMap
  /\ startup' = [phase |-> "done", data |-> EmptyMap]
  /\ nextSweep' = now + SweepPeriodMs
  /\ UNCHANGED <<env, now, file, nextId, nextToken, history>>

(* -------------------------- cleanup scheduler -------------------------- *)
\* the setInterval callback of startCleanupInterval
Sweep ==
  LET kept == cleanupExpiredSessions(sessions) IN
  /\ now >= nextSweep
  /\ Cardinality(inflight \cup CleanupSave(sessions, kept)) <= MaxInflight
  /\ pairingCodes' = cleanupExpiredCodes(pairingCodes)
  /\ sessions' = kept
  /\ inflight' = inflight \cup CleanupSave(sessions, kept)
  /\ rateLimitMap' = cleanupRateLimits(rateLimitMap)
  /\ nextSweep' = now + SweepPeriodMs
  /\ UNCHANGED <<env, now, file, startup, nextId, nextToken, history>>

(* ------------------------------- clock --------------------------------- *)
Tick ==
  /\ now < MaxTicks * TickMs
  /\ now' = now + TickMs
  /\ UNCHANGED <<env, pairingCodes, sessions, rateLimitMap, file, startup, inflight,
                 nextSweep, nextId, nextToken, history>>

\* time goes on after the last request of the run has arrived
Settle ==
  /\ now >= MaxTicks * TickMs
  /\ now < (MaxTicks + SettleTicks) * TickMs
  /\ now' = now + TickMs
  /\ UNCHANGED <<env, pairingCodes, sessions, rateLimitMap, file, startup, inflight,
                 nextSweep, nextId, nextToken, history>>

Next ==
  \/ Tick
  \/ ReadSessionsFile
  \/ LoadSessions
  \/ Sweep
  \/ \E d \in DeviceNames, ip \in Ips, c \in GeneratedCodes :
       InitiatePairing(d, ip, c)
  \/ \E c \in InputCodes, sid \in 1..MaxInitiates, ip \in CallerIps,
        ua \in UserAgents :
       CompletePairing(c, sid, ip, ua)
  \/ \E t \in 0..MaxTokens : ValidateSession(t)
  \/ GetSessions
  \/ \E sid \in 0..MaxInitiates : RevokeSession(sid)
  \/ RevokeAllSessions
  \/ \E h \in AuthHeaders, ip \in ClientIps, ua \in ClientAgents :
       SessionAuth(h, ip, ua)
  \/ \E h \in AuthHeaders, ip \in ClientIps, ua \in ClientAgents :
       OptionalSessionAuth(h, ip, ua)
  \/ \E n \in 1..MaxCodeLength :
       \E draws \in [1..n -> 0..(RandomSteps - 1)] : DrawCode(n, draws)
  \/ \E p \in inflight : WriteLands(p)
  \/ \E p \in inflight : WriteFails(p)
  \/ Settle
  \/ Restart

\* the whole service
Spec == Init /\ [][Next]_vars

(***************************************************************************)
(* TLC explores the service in parts, each a restriction of Next to the    *)
(* operations, inputs and settings a group of properties is about.         *)
(***************************************************************************)
\* the runs in which no two writeFile calls are pending together
OneAtATime == Cardinality(inflight') <= 1

\* the settings of a default installation
InitDefault == Init /\ env = DefaultEnv

\* pairing: clock, sweep, initiate and complete with every input, and the
\* saves of complete, in the runs where the startup read is still pending
NextPairing ==
  \/ Tick
  \/ Sweep /\ OneAtATime
  \/ \E d \in DeviceNames, ip \in Ips, c \in GeneratedCodes :
       InitiatePairing(d, ip, c)
  \/ \E c \in InputCodes, sid \in 1..MaxInitiates, ip \in CallerIps,
        ua \in UserAgents :
       CompletePairing(c, sid, ip, ua) /\ OneAtATime
  \/ \E p \in inflight : WriteLands(p)

SpecPairing == InitDefault /\ [][NextPairing]_vars

\* session store: every operation, pairing with one code value, typed in
\* upper case, from callers without an origin address
StoreCodes == {c \in GeneratedCodes : \A i \in DOMAIN c : c[i] = "A"}

NextStore ==
  \/ Tick
  \/ ReadSessionsFile
  \/ LoadSessions /\ OneAtATime
  \/ Sweep /\ OneAtATime
  \/ \E d \in DeviceNames, c \in StoreCodes : InitiatePairing(d, Undefined, c)
  \/ \E c \in StoreCodes, sid \in 1..MaxInitiates, ip \in CallerIps,
        ua \in UserAgents :
       CompletePairing(c, sid, ip, ua) /\ OneAtATime
  \/ \E t \in 0..MaxTokens : ValidateSession(t) /\ OneAtATime
  \/ GetSessions /\ OneAtATime
  \/ \E sid \in 0..MaxInitiates : RevokeSession(sid) /\ OneAtATime
  \/ RevokeAllSessions /\ OneAtATime
  \/ \E p \in inflight : WriteLands(p)

SpecStore == InitDefault /\ [][NextStore]_vars

\* sliding expiry: the session store without revocation, with
\* SESSION_SLIDING_EXPIRY set or not
InitSliding ==
  /\ Init
  /\ env.SESSION_USER_AGENT_CHECK = Undefined
  /\ env.SESSION_IP_BINDING = Undefined

NextSliding ==
  \/ Tick
  \/ ReadSessionsFile
  \/ LoadSessions /\ OneAtATime
  \/ Sweep /\ OneAtATime
  \/ \E d \in DeviceNames, c \in StoreCodes : InitiatePairing(d, Undefined, c)
  \/ \E c \in StoreCodes, sid \in 1..MaxInitiates, ip \in CallerIps,
        ua \in UserAgents :
       CompletePairing(c, sid, ip, ua) /\ OneAtATime
  \/ \E t \in 0..MaxTokens : ValidateSession(t) /\ OneAtATime
  \/ GetSessions /\ OneAtATime
  \/ \E p \in inflight : WriteLands(p)

SpecSliding == InitSliding /\ [][NextSliding]_vars

\* round trip: initiate, complete with the code typed in either case, and
\* validate, without revocation and with the startup read still pending
TypedCodes == {c \in InputCodes : toUpperCase(c) \in StoreCodes}

NextRoundTrip ==
  \/ Tick
  \/ Sweep /\ OneAtATime
  \/ \E d \in DeviceNames, c \in StoreCodes : InitiatePairing(d, Undefined, c)
  \/ \E c \in TypedCodes, sid \in 1..MaxInitiates, ip \in CallerIps,
        ua \in UserAgents :
       CompletePairing(c, sid, ip, ua) /\ OneAtATime
  \/ \E t \in 0..MaxTokens : ValidateSession(t) /\ OneAtATime
  \/ \E p \in inflight : WriteLands(p)

SpecRoundTrip == InitDefault /\ [][NextRoundTrip]_vars

\* write failure: the session store with saves that land or fail, one at a
\* time, with the startup read still pending
NextFailure ==
  \/ Tick
  \/ \E d \in DeviceNames, c \in StoreCodes : InitiatePairing(d, Undefined, c)
  \/ \E c \in StoreCodes, sid \in 1..MaxInitiates, ip \in CallerIps,
        ua \in UserAgents :
       CompletePairing(c, sid, ip, ua) /\ OneAtATime
  \/ \E t \in 0..MaxTokens : ValidateSession(t) /\ OneAtATime
  \/ GetSessions /\ OneAtATime
  \/ \E sid \in 0..MaxInitiates : RevokeSession(sid) /\ OneAtATime
  \/ RevokeAllSessions /\ OneAtATime
  \/ \E p \in inflight : WriteLands(p)
  \/ \E p \in inflight : WriteFails(p)

SpecFailure == InitDefault /\ [][NextFailure]_vars

\* the session guards in front of the routes, with SESSION_IP_BINDING and
\* SESSION_USER_AGENT_CHECK set or not, one write at a time, writes that may
\* fail, on a first start (no sessions file yet)
InitGuard ==
  /\ Init
  /\ env.SESSION_SLIDING_EXPIRY = Undefined
  /\ file = EmptyMap

NextGuard ==
  \/ Tick
  \/ \E d \in DeviceNames, c \in StoreCodes : InitiatePairing(d, Undefined, c)
  \/ \E c \in StoreCodes, sid \in 1..MaxInitiates, ip \in CallerIps,
        ua \in UserAgents :
       CompletePairing(c, sid, ip, ua) /\ OneAtATime
  \/ \E h \in AuthHeaders, ip \in ClientIps, ua \in ClientAgents :
       SessionAuth(h, ip, ua) /\ OneAtATime
  \/ \E h \in AuthHeaders, ip \in ClientIps, ua \in ClientAgents :
       OptionalSessionAuth(h, ip, ua) /\ OneAtATime
  \/ \E p \in inflight : WriteLands(p)
  \/ \E p \in inflight : WriteFails(p)

SpecGuard == InitGuard /\ [][NextGuard]_vars

\* persistence: overlapping saves that land in any order, with
\* SESSION_USER_AGENT_CHECK set or not and the startup read still pending
InitPersist ==
  /\ Init
  /\ env.SESSION_SLIDING_EXPIRY = Undefined
  /\ env.SESSION_IP_BINDING = Undefined

NextPersist ==
  \/ Tick
  \/ \E d \in DeviceNames, c \in StoreCodes : InitiatePairing(d, Undefined, c)
  \/ \E c \in StoreCodes, sid \in 1..MaxInitiates, ip \in CallerIps,
        ua \in UserAgents :
       CompletePairing(c, sid, ip, ua)
  \/ \E t \in 0..MaxTokens : ValidateSession(t)
  \/ GetSessions
  \/ \E sid \in 0..MaxInitiates : RevokeSession(sid)
  \/ RevokeAllSessions
  \/ \E p \in inflight : WriteLands(p)

SpecPersist == InitPersist /\ [][NextPersist]_vars

\* what a session takes over from its pairing code: initiate with and
\* without a device name and an address, complete from another address or
\* from none
NextCarry ==
  \/ Tick
  \/ \E d \in RecordedNames, ip \in Ips, c \in StoreCodes :
       InitiatePairing(d, ip, c)
  \/ \E c \in StoreCodes, sid \in 1..MaxInitiates, ip \in CompleteIps :
       CompletePairing(c, sid, ip, Undefined) /\ OneAtATime
  \/ \E p \in inflight : WriteLands(p)

SpecCarry == InitDefault /\ [][NextCarry]_vars

\* the timer and the clock keep running: requests arrive until
\* MaxTicks * TickMs, time advances SettleTicks further, the setInterval
\* callback fires whenever it is due, and every writeFile completes
Arrives == now <= MaxTicks * TickMs

InitLive == InitDefault /\ file = EmptyMap

NextLive ==
  \/ Tick
  \/ Settle
  \/ Sweep /\ OneAtATime
  \/ \E d \in DeviceNames, ip \in CallerIps, c \in StoreCodes :
       InitiatePairing(d, ip, c) /\ Arrives
  \/ \E c \in StoreCodes, sid \in 1..MaxInitiates, ip \in CallerIps :
       CompletePairing(c, sid, ip, Undefined) /\ Arrives /\ OneAtATime
  \/ \E p \in inflight : WriteLands(p)

SpecLive ==
  /\ InitLive
  /\ [][NextLive]_vars
  /\ WF_vars(Tick)
  /\ WF_vars(Settle)
  /\ WF_vars(Sweep /\ OneAtATime)
  /\ WF_vars(\E p \in inflight : WriteLands(p))

\* restarts: overlapping saves that land in any order, and the process
\* started again once nothing is pending
NextRestart ==
  \/ Tick
  \/ \E d \in DeviceNames, c \in StoreCodes : InitiatePairing(d, Undefined, c)
  \/ \E c \in StoreCodes, sid \in 1..MaxInitiates, ip \in CallerIps :
       CompletePairing(c, sid, ip, Undefined)
  \/ \E t \in 1..MaxTokens : ValidateSession(t)
  \/ \E sid \in 1..MaxInitiates : RevokeSession(sid)
  \/ RevokeAllSessions
  \/ \E p \in inflight : WriteLands(p)
  \/ Restart

SpecRestart == InitLive /\ [][NextRestart]_vars

\* the code generator alone, for every length up to MaxCodeLength and every
\* sequence of values Math.random() may return
NextCodes ==
  \E n \in 1..MaxCodeLength :
    \E draws \in [1..n -> 0..(RandomSteps - 1)] : DrawCode(n, draws)

SpecCodes == InitDefault /\ [][NextCodes]_vars

\* sweeps and requests that overlap: up to MaxInflight operations suspended
\* at their save while the timer fires and further requests arrive, on a
\* first start with SESSION_USER_AGENT_CHECK set
InitConcurrent ==
  /\ Init
  /\ env = [DefaultEnv EXCEPT !.SESSION_USER_AGENT_CHECK = "true"]
  /\ file = EmptyMap

NextConcurrent ==
  \/ Tick
  \/ Sweep
  \/ \E d \in DeviceNames, c \in StoreCodes : InitiatePairing(d, Undefined, c)
  \/ \E c \in StoreCodes, sid \in 1..MaxInitiates, ip \in CallerIps,
        ua \in UserAgents :
       CompletePairing(c, sid, ip, ua)
  \/ \E t \in 1..MaxTokens : ValidateSession(t)
  \/ \E sid \in 1..MaxInitiates : RevokeSession(sid)
  \/ RevokeAllSessions
  \/ \E p \in inflight : WriteLands(p)

SpecConcurrent == InitConcurrent /\ [][NextConcurrent]_vars

(***************************************************************************)
(* Properties.  A property about what a call returns quantifies over the   *)
(* call's inputs and evaluates the operation in every reachable state.     *)
(***************************************************************************)
Sids == 1..MaxInitiates

\* the sessionId of the latest initiate that returned this code value, or 0
LatestIssue(key) ==
  LET s == {sid \in DOMAIN issued : issued[sid].code = key} IN
  IF s = {} THEN 0 ELSE CHOOSE m \in s : \A x \in s : x <= m

\* the registry holds the entry that initiate stored for sid under key
Registered(key, sid) ==
  key \in DOMAIN pairingCodes /\ pairingCodes[key].sessionId = sid

\* a complete call for sid has stored its session and awaits its save
Completing(sid) == \E p \in inflight : p.op = "complete" /\ p.sid = sid

\* C1: once a complete call with a code has returned a session, every later
\* complete call with that code value, in any letter case and with any
\* correlation id, fails with PAIRING_CODE_INVALID, unless a later initiate
\* has issued the code value again.
SingleUseAfterComplete ==
  \A c \in InputCodes, sid \in Sids, ip \in CallerIps :
    LatestIssue(toUpperCase(c)) \in consumed
      => completePairing(c, sid, ip, nextToken).out
           = ERROR_CODES.PAIRING_CODE_INVALID

\* C2: once revoke(id) has returned true or revokeAll() has returned,
\* validate of that session's token returns null in every later state.
RevokedStaysRevoked ==
  \A t \in revoked : validateSession(t).out = "null"

\* C3: the session store never holds more than MaxSessions sessions.
SessionCountBounded == Size(sessions) <= MaxSessions

\* C4: when the store already holds MaxSessions sessions, complete with a
\* registered, unexpired code and its correlation id fails with
\* SESSION_LIMIT_REACHED and leaves the session set exactly as it was.
LimitReachedLeavesSessions ==
  \A c \in InputCodes, sid \in Sids, ip \in CallerIps :
    LET key == toUpperCase(c)
        r == completePairing(c, sid, ip, nextToken)
    IN (/\ Registered(key, sid)
        /\ pairingCodes[key].expiresAt >= now
        /\ Size(sessions) >= MaxSessions)
       => /\ r.out = ERROR_CODES.SESSION_LIMIT_REACHED
          /\ r.sess = sessions

\* C4 witness: the store is full and a valid code is refused
FullStoreRefusesValidCode ==
  \E c \in InputCodes, sid \in Sids, ip \in CallerIps :
    /\ Registered(toUpperCase(c), sid)
    /\ pairingCodes[toUpperCase(c)].expiresAt >= now
    /\ Size(sessions) = MaxSessions
    /\ completePairing(c, sid, ip, nextToken).out
         = ERROR_CODES.SESSION_LIMIT_REACHED

\* C5 as stated: every complete attempt made after a code's expiresAt, with
\* that code and its correlation id, fails with PAIRING_CODE_EXPIRED, whether
\* or not a sweep has run.
ExpiredCodeAlwaysReportsExpired ==
  \A c \in InputCodes, sid \in DOMAIN issued, ip \in CallerIps :
    (issued[sid].code = toUpperCase(c) /\ now > issued[sid].expiresAt)
      => completePairing(c, sid, ip, nextToken).out
           = ERROR_CODES.PAIRING_CODE_EXPIRED

\* C5 amended: every complete attempt made after a code's expiresAt, with
\* that code and its correlation id, fails: with PAIRING_CODE_EXPIRED while
\* the entry is still in the registry, and with PAIRING_CODE_INVALID once the
\* entry has been removed (swept or consumed) or replaced.
ExpiredCodeFails ==
  \A c \in InputCodes, sid \in DOMAIN issued, ip \in CallerIps :
    (issued[sid].code = toUpperCase(c) /\ now > issued[sid].expiresAt)
      => completePairing(c, sid, ip, nextToken).out
           = IF Registered(toUpperCase(c), sid)
             THEN ERROR_CODES.PAIRING_CODE_EXPIRED
             ELSE ERROR_CODES.PAIRING_CODE_INVALID

\* C5 witness: an expired code that was never consumed has been swept
ExpiredCodeSwept ==
  \E sid \in DOMAIN issued :
    /\ now > issued[sid].expiresAt
    /\ sid \notin consumed /\ ~Completing(sid)
    /\ LatestIssue(issued[sid].code) = sid
    /\ issued[sid].code \notin DOMAIN pairingCodes

\* C6: a complete attempt at a time <= expiresAt with the code and the
\* correlation id of one initiate call succeeds, provided the code has not
\* been consumed and the store is below capacity, whatever other initiate
\* calls happened in between.
PendingCodeCompletes ==
  \A c \in InputCodes, sid \in DOMAIN issued, ip \in CallerIps :
    (/\ issued[sid].code = toUpperCase(c)
     /\ now <= issued[sid].expiresAt
     /\ sid \notin consumed /\ ~Completing(sid)
     /\ Size(sessions) < MaxSessions)
      => completePairing(c, sid, ip, nextToken).out = "ok"

\* sid's code is in the registry and has not expired
IsPending(sid) ==
  \E k \in DOMAIN pairingCodes :
    pairingCodes[k].sessionId = sid /\ ~(pairingCodes[k].expiresAt < now)

\* C7: no session is created from a pairing code after the code's expiresAt,
\* and a code that has expired is never pending again.
NoSessionFromExpiredCode ==
  \A sid \in DOMAIN issued :
    /\ sid \in DOMAIN sessions
         => sessions[sid].createdAt <= issued[sid].expiresAt
    /\ now > issued[sid].expiresAt => ~IsPending(sid)

\* C7 witness: a complete call with an expired code that is still in the
\* registry is refused, while a session made from another code exists
ExpiredCodeRefused ==
  \E c \in InputCodes, sid \in DOMAIN issued, ip \in CallerIps :
    /\ Registered(toUpperCase(c), sid)
    /\ now > issued[sid].expiresAt
    /\ completePairing(c, sid, ip, nextToken).out
         = ERROR_CODES.PAIRING_CODE_EXPIRED
    /\ (DOMAIN sessions) \cap (DOMAIN issued) # {}

\* C8: complete fails with PAIRING_CODE_INVALID when the code is not in the
\* registry or the stored correlation id differs from the one supplied, and
\* leaves the pairing codes and the sessions unchanged.
WrongCodeOrIdChangesNothing ==
  \A c \in InputCodes, sid \in Sids, ip \in CallerIps :
    LET r == completePairing(c, sid, ip, nextToken) IN
    ~Registered(toUpperCase(c), sid)
      => /\ r.out = ERROR_CODES.PAIRING_CODE_INVALID
         /\ r.codes = pairingCodes
         /\ r.sess = sessions

\* C8 witness: a pending code is tried with another call's correlation id
WrongIdAgainstPendingCode ==
  \E c \in InputCodes, sid \in DOMAIN issued, ip \in CallerIps :
    /\ toUpperCase(c) \in DOMAIN pairingCodes
    /\ pairingCodes[toUpperCase(c)].sessionId # sid
    /\ ~(pairingCodes[toUpperCase(c)].expiresAt < now)
    /\ completePairing(c, sid, ip, nextToken).out
         = ERROR_CODES.PAIRING_CODE_INVALID

\* C9: of the initiate calls one origin makes within a window (from its first
\* call until 60 s later) exactly the first MaxAttempts are allowed; the
\* first call after the window has passed is allowed and opens a new window.
RateLimitPerWindow ==
  \A ip \in Ips \ {Undefined} :
    LET r == checkRateLimit(ip)
        seen == CountAttempt(ip)[ip]
    IN /\ r.allowed <=> seen.calls <= MaxAttempts
       /\ seen.calls = 1
            => r.map[ip] = [attempts |-> 1, resetAt |-> now + RateWindowMs]

\* C9 witness: an origin that was denied in one window has made the first,
\* allowed call of its next window
AllowedAgainAfterDenial ==
  \E ip \in DOMAIN attemptsSeen :
    /\ attemptsSeen[ip].denied
    /\ attemptsSeen[ip].calls = 1
    /\ ip \in DOMAIN rateLimitMap
    /\ rateLimitMap[ip] = [attempts |-> 1,
                           resetAt |-> attemptsSeen[ip].first + RateWindowMs]

\* C10: an initiate call the rate limiter denies fails with
\* PAIRING_RATE_LIMITED and leaves the pairing codes and sessions unchanged.
DeniedInitiateCreatesNothing ==
  /\ [](\A d \in DeviceNames, ip \in Ips \ {Undefined}, c \in GeneratedCodes :
          ~checkRateLimit(ip).allowed
            => LET r == initiatePairing(d, ip, c, nextId) IN
               /\ r.out = ERROR_CODES.PAIRING_RATE_LIMITED
               /\ r.codes = pairingCodes)
  /\ [][\A d \in DeviceNames, ip \in Ips \ {Undefined}, c \in GeneratedCodes :
          (~checkRateLimit(ip).allowed /\ InitiatePairing(d, ip, c))
            => UNCHANGED <<pairingCodes, sessions, nextId>>]_vars

\* C10 witness: an origin was denied when it had pairing codes pending
DeniedWithCodesPending ==
  \E ip \in DOMAIN attemptsSeen :
    /\ attemptsSeen[ip].calls > MaxAttempts
    /\ \E k \in DOMAIN pairingCodes : pairingCodes[k].ipAddress = ip

\* a token no complete call of this run and no earlier run has issued
NeverIssued(t) == t >= nextToken /\ t # OldSession.token

\* C11: validate(token) returns a session only if a session with exactly that
\* token is in the store and has expiresAt >= now; for a token never issued
\* it returns null, leaves the sessions unchanged and writes nothing.
ValidateFindsLiveToken ==
  /\ [](\A t \in Tokens :
          LET r == validateSession(t) IN
          /\ r.out = "session"
               => \E id \in DOMAIN sessions :
                    /\ sessions[id].token = t
                    /\ sessions[id].expiresAt >= now
                    /\ r.id = id
          /\ NeverIssued(t)
               => r.out = "null" /\ r.sess = sessions /\ ~r.save)
  /\ [][\A t \in Tokens :
          (NeverIssued(t) /\ ValidateSession(t))
            => UNCHANGED <<sessions, file, inflight>>]_vars

\* C11 witness: the store holds an expired session, whose token validate
\* answers with null, while some token has never been issued
ExpiredAndUnknownTokens ==
  /\ \E t \in Tokens : NeverIssued(t)
  /\ \E id \in DOMAIN sessions :
       /\ sessions[id].expiresAt < now
       /\ validateSession(sessions[id].token).out = "null"

\* C12: validate on a token whose session has expiresAt < now returns null
\* and deletes the session; a session validate found expired is in the store
\* in no later state (so in no later list() or get(id)), and list() never
\* returns a session with expiresAt < now.
ExpiredSessionGone ==
  /\ \A t \in Tokens :
       LET r == validateSession(t) IN
       (\E id \in DOMAIN sessions :
          sessions[id].token = t /\ sessions[id].expiresAt < now)
         => /\ r.out = "null"
            /\ \A id \in DOMAIN r.sess : r.sess[id].token # t
  /\ \A t \in expiredSeen : \A id \in DOMAIN sessions : sessions[id].token # t
  /\ \A id \in DOMAIN cleanupExpiredSessions(sessions) :
       ~(sessions[id].expiresAt < now)

\* C12 witness: validate has found a session expired and removed it, after
\* the startup load, while another session is still in the store
ExpiredRemovedOthersKept ==
  /\ expiredSeen # {}
  /\ startup.phase = "done"
  /\ sessions # EmptyMap

\* C13: with sliding expiry enabled a successful validate sets the session's
\* expiresAt to now + SessionExpirySeconds; with sliding expiry disabled no
\* step changes the expiresAt of a session.
SlidingExpiryEffect ==
  /\ [](\A t \in Tokens :
          LET r == validateSession(t) IN
          r.out = "session"
            => r.sess[r.id].expiresAt =
                 IF env.SESSION_SLIDING_EXPIRY = "true"
                 THEN now + SessionExpirySeconds * 1000
                 ELSE sessions[r.id].expiresAt)
  /\ [][env.SESSION_SLIDING_EXPIRY # "true"
          => \A id \in (DOMAIN sessions) \cap (DOMAIN sessions') :
               sessions'[id].token = sessions[id].token
                 => sessions'[id].expiresAt = sessions[id].expiresAt]_vars

\* C13 witness: with sliding expiry enabled a session was validated some
\* time after its creation and expires SessionExpirySeconds after that
ExpiryMovedByValidate ==
  /\ env.SESSION_SLIDING_EXPIRY = "true"
  /\ \E id \in DOMAIN sessions :
       /\ sessions[id].lastUsedAt > sessions[id].createdAt
       /\ sessions[id].expiresAt
            = sessions[id].lastUsedAt + SessionExpirySeconds * 1000

\* C14: a session a complete call has returned has the correlation id as its
\* id, and until its expiresAt validate of its token returns the session
\* with that id and deviceName (in runs without revocation).
RoundTrip ==
  \A s \in returned :
    /\ s.id = s.correlationId
    /\ now <= s.expiresAt
         => LET r == validateSession(s.token) IN
            /\ r.out = "session"
            /\ r.sess[r.id].id = s.id
            /\ r.sess[r.id].deviceName = s.deviceName

\* C15: complete with any letter-case variant of a code has the outcome of
\* complete with the upper-case code, and leaves the same pairing codes and
\* the same sessions.
CaseInsensitiveComplete ==
  \A c \in InputCodes, sid \in Sids, ip \in CallerIps :
    completePairing(c, sid, ip, nextToken)
      = completePairing(toUpperCase(c), sid, ip, nextToken)

\* C16: when complete fails with PAIRING_CODE_EXPIRED, the expired code is
\* no longer in the pairing-code registry.
ExpiredCodeDeleted ==
  \A c \in InputCodes, sid \in Sids, ip \in CallerIps :
    LET r == completePairing(c, sid, ip, nextToken) IN
    r.out = ERROR_CODES.PAIRING_CODE_EXPIRED
      => toUpperCase(c) \notin DOMAIN r.codes

\* the step is a validate call that returns the session id
ValidateReturns(id) ==
  \E t \in Tokens :
    /\ ValidateSession(t)
    /\ validateSession(t).out = "session"
    /\ validateSession(t).id = id

\* C17: the lastUsedAt of a session never decreases, and it changes only in
\* a validate call that returns that session.
LastUsedMonotone ==
  [][\A id \in (DOMAIN sessions) \cap (DOMAIN sessions') :
       sessions'[id].token = sessions[id].token
         => /\ sessions'[id].lastUsedAt >= sessions[id].lastUsedAt
            /\ sessions'[id].lastUsedAt # sessions[id].lastUsedAt
                 => ValidateReturns(id)]_vars

\* C18: no validate call ends with an error, also when the write of the
\* session file fails.
ValidateNeverThrows == "validate" \notin thrown

\* the step is the return of complete, of validate with a session, of revoke
\* or of revokeAll
MutationReturns ==
  \E p \in inflight :
    /\ WriteLands(p)
    /\ p.op \in {"complete", "validate", "revoke", "revokeAll"}
    /\ p.op = "validate" => p.res = "session"

\* C19: when complete, validate with a session, revoke, revokeAll, or a list
\* call that swept something returns, the session file holds exactly the
\* sessions in memory, userAgent included.
WriteThrough ==
  [][(MutationReturns \/ (GetSessions /\ sessions' # sessions))
       => file' = Snapshot(sessions')]_vars

\* the records of a session file without what the route stored after the save
WithoutUserAgent(contents) ==
  [id \in DOMAIN contents |-> [contents[id] EXCEPT !.userAgent = Undefined]]

\* C20: once every pending save has finished, the session file holds the
\* sessions in memory: a save with an older snapshot never lands over a
\* newer one (the userAgent stored after a save is left out of account).
SavesSerialized ==
  (inflight = {} /\ consumed # {})
    => WithoutUserAgent(file) = WithoutUserAgent(Snapshot(sessions))

(* session guards *)
\* req.headers.authorization is absent or does not start with 'Bearer '
BadHeader(authHeader) == authHeader = NoHeader \/ authHeader.head # "Bearer "

\* the request is refused with status 401 and the given code, and next() is
\* not called
Refused(reply, code) ==
  /\ reply.status = "401"
  /\ reply.code = code
  /\ reply.next = 0
  /\ ~reply.attached

SessionAuthAnswers == {a \in answers : a.guard = "sessionAuth"}

OptionalAnswers == {a \in answers : a.guard = "optionalSessionAuth"}

\* C21: sessionAuth refuses a request whose Authorization header is absent
\* or does not start with 'Bearer ' with UNAUTHORIZED, without calling
\* validateSession and without changing a session, and refuses a request
\* whose token validateSession does not find with SESSION_INVALID; in both
\* cases next() is not called.
SessionAuthRejects ==
  /\ \A h \in AuthHeaders, ip \in ClientIps, ua \in ClientAgents :
       LET g == sessionAuth(h, ip, ua) IN
       /\ BadHeader(h) =>
            /\ ~g.validates
            /\ ~g.save
            /\ g.sess = sessions
            /\ Refused(g.reply, ERROR_CODES.UNAUTHORIZED)
       /\ (~BadHeader(h) /\ validateSession(h.tail).out = "null") =>
            Refused(g.reply, ERROR_CODES.SESSION_INVALID)
  /\ \A a \in SessionAuthAnswers :
       /\ BadHeader(a.header) =>
            /\ a.found.out = "none"
            /\ Refused(a.reply, ERROR_CODES.UNAUTHORIZED)
       /\ a.found.out = "null" =>
            Refused(a.reply, ERROR_CODES.SESSION_INVALID)

\* sessionAuth has refused a well-formed token that validateSession did not
\* find, while the store holds a session
UnknownTokenRefused ==
  \E a \in SessionAuthAnswers :
    /\ ~BadHeader(a.header)
    /\ a.found.out = "null"
    /\ a.reply.code = ERROR_CODES.SESSION_INVALID
    /\ sessions # EmptyMap

\* the address check is enabled and fails for the session found
AddressMismatch(found, clientIp) ==
  /\ env.SESSION_IP_BINDING = "true"
  /\ found.ipAddress # Undefined
  /\ clientIp # found.ipAddress

\* the user-agent check is enabled and fails for the session found
AgentMismatch(found, clientUserAgent) ==
  /\ env.SESSION_USER_AGENT_CHECK = "true"
  /\ found.userAgent # Undefined
  /\ clientUserAgent # found.userAgent

\* what the claim says of a request whose token validateSession found
BindingOutcome(found, clientIp, clientUserAgent, reply) ==
  /\ AddressMismatch(found, clientIp) =>
       Refused(reply, ERROR_CODES.SESSION_INVALID)
  /\ AgentMismatch(found, clientUserAgent) =>
       Refused(reply, ERROR_CODES.SESSION_INVALID)
  /\ reply.next \in {0, 1}
  /\ reply.next = 1 =>
       /\ ~AddressMismatch(found, clientIp)
       /\ ~AgentMismatch(found, clientUserAgent)
       /\ reply.attached
       /\ reply.ctx = [id |-> found.id, deviceName |-> found.deviceName]

\* C22: with SESSION_IP_BINDING 'true' and an address recorded on the
\* session, sessionAuth refuses a request from another address with
\* SESSION_INVALID; with SESSION_USER_AGENT_CHECK 'true' and an agent
\* recorded, it refuses a request with another agent with SESSION_INVALID;
\* next() is called only when every enabled check passes, and then
\* req.session is {id, deviceName} of the validated session.
BindingChecksGuardNext ==
  /\ \A h \in AuthHeaders, ip \in ClientIps, ua \in ClientAgents :
       LET g == sessionAuth(h, ip, ua) IN
       g.found.out = "session" => BindingOutcome(g.found, ip, ua, g.reply)
  /\ \A a \in SessionAuthAnswers :
       /\ a.found.out = "session" =>
            BindingOutcome(a.found, a.ip, a.agent, a.reply)
       /\ a.reply.next = 1 => a.found.out = "session"

\* with both checks enabled, a request from the recorded address but with
\* another agent than the recorded one has been refused
AgentMismatchRefused ==
  \E a \in SessionAuthAnswers :
    /\ a.found.out = "session"
    /\ env.SESSION_IP_BINDING = "true"
    /\ a.found.ipAddress = a.ip
    /\ AgentMismatch(a.found, a.agent)
    /\ a.reply.code = ERROR_CODES.SESSION_INVALID

\* C23: optionalSessionAuth never refuses: whatever the header, and also
\* when validateSession rejects, it sends no response and calls next() once;
\* it attaches no req.session when the header is absent or malformed or
\* validateSession finds no session.
OptionalGuardAlwaysProceeds ==
  /\ \A h \in AuthHeaders :
       LET g == optionalSessionAuth(h) IN
       /\ g.reply.status = "none"
       /\ g.reply.next = 1
       /\ (BadHeader(h) \/ g.found.out = "null") => ~g.reply.attached
  /\ \A a \in OptionalAnswers :
       /\ a.reply.status = "none"
       /\ a.reply.next = 1
       /\ (BadHeader(a.header) \/ a.found.out \in {"null", "error"}) =>
            ~a.reply.attached

\* the optional guard has let a request through whose validateSession
\* rejected
OptionalProceedsAfterError ==
  \E a \in OptionalAnswers :
    /\ a.found.out = "error"
    /\ a.reply.next = 1
    /\ "validate" \in thrown

(* cleanup sweep *)
\* after the step no entry of the map with the given time field < now is
\* left, and every entry that was not expired is still there, unchanged
ExactlyExpiredRemoved(before, after, expiry(_)) ==
  /\ \A k \in DOMAIN after : ~(expiry(after[k]) < now)
  /\ \A k \in DOMAIN before :
       ~(expiry(before[k]) < now) =>
          k \in DOMAIN after /\ after[k] = before[k]

ExpiresAtOf(entry) == entry.expiresAt

ResetAtOf(entry) == entry.resetAt

\* C24: a cleanup sweep leaves no pairing code and no session with
\* expiresAt < now and no rate-limit window with resetAt < now, and every
\* entry that was not expired when it ran is still present and unchanged.
SweepRemovesExactlyExpired ==
  [][Sweep =>
       /\ ExactlyExpiredRemoved(pairingCodes, pairingCodes', ExpiresAtOf)
       /\ ExactlyExpiredRemoved(sessions, sessions', ExpiresAtOf)
       /\ ExactlyExpiredRemoved(rateLimitMap, rateLimitMap', ResetAtOf)]_vars

\* a sweep has just removed an expired pairing code and an expired session
\* and kept a pairing code and a session that were not expired
SweepRemovedAndKept ==
  /\ nextSweep = now + SweepPeriodMs
  /\ \E sid \in DOMAIN issued :
       /\ issued[sid].expiresAt < now
       /\ sid \notin consumed /\ ~Completing(sid)
       /\ issued[sid].code \notin DOMAIN pairingCodes
  /\ \E s \in returned : s.expiresAt < now /\ s.id \notin DOMAIN sessions
  /\ pairingCodes # EmptyMap
  /\ sessions # EmptyMap

(* atomicity *)
\* the step resumes an operation that was suspended at its save
Resumes == \E p \in inflight : WriteLands(p) \/ WriteFails(p)

\* C25: the check-then-mutate of every operation on the pairing-code,
\* session and rate-limit maps happens in the one step before its save: the
\* step that resumes an operation after the save changes none of the three
\* maps (but for the userAgent the route writes into the session object it
\* was handed), whatever sweeps and requests ran while it was suspended.
MutationsBeforeSuspension ==
  [][Resumes =>
       /\ pairingCodes' = pairingCodes
       /\ rateLimitMap' = rateLimitMap
       /\ WithoutUserAgent(sessions') = WithoutUserAgent(sessions)]_vars

\* while a complete call is suspended at its save, a sweep has removed a
\* session that the call saw in the map
SweepDuringComplete ==
  \E p \in inflight, q \in inflight :
    /\ p.op = "complete"
    /\ q.op = "cleanup"
    /\ nextSweep = now + SweepPeriodMs
    /\ revoked = {} /\ expiredSeen = {}
    /\ \E id \in DOMAIN p.snap : id \notin DOMAIN sessions
    /\ p.sid \in DOMAIN sessions

(* startup load *)
\* the step is a request that reads or writes the session map
SessionRequest ==
  \/ \E c \in InputCodes, sid \in Sids, ip \in CallerIps, ua \in UserAgents :
       CompletePairing(c, sid, ip, ua)
  \/ \E t \in Tokens : ValidateSession(t)
  \/ GetSessions
  \/ \E sid \in 0..MaxInitiates : RevokeSession(sid)
  \/ RevokeAllSessions

\* C26: the sessions of the sessions file are in the map before any
\* operation on sessions runs: no request that reads or writes the session
\* map is served while sessions of the file are still to be loaded.
LoadedBeforeOperations ==
  [][SessionRequest => (startup.phase = "done" \/ file = EmptyMap)]_vars

(* revocation *)
SessionIds == 0..MaxInitiates

\* C27: revoke(id) returns true exactly when the store holds a session with
\* that id, and removes that session and no other; a revoke of the same id
\* right after it returns false and changes nothing; revokeAll() returns the
\* number of sessions held and leaves the store empty.
RevokeContract ==
  /\ [](/\ \A sid \in SessionIds :
            LET r == revokeSession(sid) IN
            /\ r.deleted <=> sid \in DOMAIN sessions
            /\ DOMAIN r.sess = (DOMAIN sessions) \ {sid}
            /\ \A id \in DOMAIN r.sess : r.sess[id] = sessions[id]
            /\ (~r.deleted => r.sess = sessions)
         /\ revokeAllSessions.count = Cardinality(DOMAIN sessions)
         /\ revokeAllSessions.sess = EmptyMap)
  /\ [][\A sid \in SessionIds :
          RevokeSession(sid) =>
            /\ ~(revokeSession(sid).deleted)'
            /\ (revokeSession(sid).sess)' = sessions'
            /\ (sid \in DOMAIN sessions =>
                  \E p \in inflight' : p.op = "revoke" /\ p.sid = sid
                                           /\ p.res = "true")]_vars
  /\ [][RevokeAllSessions =>
          /\ sessions' = EmptyMap
          /\ \E p \in inflight' : p.op = "revokeAll"
                                   /\ p.res = Cardinality(DOMAIN sessions)]_vars

\* a revoke call has removed its session, is about to return true, and
\* another session is still in the store
RevokedOneOfTwo ==
  \E p \in inflight :
    /\ p.op = "revoke"
    /\ p.sid \notin DOMAIN sessions
    /\ sessions # EmptyMap

(* carry-over *)
\* C28: the session a successful complete creates has the deviceName
\* recorded on the pairing code at initiate, and the address of the caller
\* of complete when there is one, otherwise the address recorded on the
\* pairing code.
SessionCarriesOver ==
  \A c \in StoreCodes, sid \in Sids, ip \in CompleteIps :
    LET r == completePairing(c, sid, ip, nextToken) IN
    r.out = "ok" =>
      LET pairingCode == pairingCodes[toUpperCase(c)]
          session == r.sess[sid]
      IN /\ pairingCode.deviceName \notin {Undefined, ""} =>
              session.deviceName = pairingCode.deviceName
         /\ ip # Undefined => session.ipAddress = ip
         /\ ip = Undefined => session.ipAddress = pairingCode.ipAddress

\* the store holds a session completed without an address, with the device
\* name and the address of its pairing code, and one completed from another
\* address than its pairing code's
CarriedAndSupplied ==
  \E a \in DOMAIN sessions, b \in DOMAIN sessions :
    /\ sessions[a].deviceName = "phone"
    /\ sessions[a].ipAddress = "ip1"
    /\ sessions[b].ipAddress = "ip2"

(* generated codes *)
Ambiguous == {"0", "O", "1", "I"}

AlphabetChars == {Alphabet[i] : i \in DOMAIN Alphabet}

\* C29: for every PAIRING_CODE_LENGTH n, a generated pairing code has
\* exactly n characters, each of them a character of the generator's
\* alphabet, and the alphabet has none of the characters 0, O, 1, I.
GeneratedCodeWellFormed ==
  /\ AlphabetChars \cap Ambiguous = {}
  /\ draft # NoDraft =>
       /\ Len(draft.code) = draft.length
       /\ \A i \in DOMAIN draft.code :
            draft.code[i] \in AlphabetChars \ Ambiguous

\* a code of two characters has been drawn, the first and the last
\* character of the alphabet
DrewFirstAndLast ==
  /\ draft.length = 2
  /\ draft.code = <<"A", "9">>

(* lifetimes *)
\* C30: every pairing code in the registry and every session in the store
\* or in the sessions file has expiresAt > createdAt, with sliding expiry
\* on or off.
ExpiresAfterCreated ==
  /\ \A c \in DOMAIN pairingCodes :
       pairingCodes[c].expiresAt > pairingCodes[c].createdAt
  /\ \A id \in DOMAIN sessions :
       sessions[id].expiresAt > sessions[id].createdAt
  /\ \A id \in DOMAIN file :
       ParseDate(file[id].expiresAt) > ParseDate(file[id].createdAt)

\* with sliding expiry on, the store holds a session created by complete
\* whose expiry a later validate has moved, while a pairing code is pending
SlidLifetimeAndPendingCode ==
  /\ env.SESSION_SLIDING_EXPIRY = "true"
  /\ pairingCodes # EmptyMap
  /\ \E id \in DOMAIN sessions :
       /\ id \in consumed
       /\ sessions[id].expiresAt
            > sessions[id].createdAt + SessionExpirySeconds * 1000

(* failure outcomes of complete *)
\* the correlation id is not the one stored under the code, or the code is
\* not in the registry at all
WrongId(code, sessionId) == ~Registered(toUpperCase(code), sessionId)

\* C31: a complete call with a wrong correlation id gets the same response
\* (400, PAIRING_CODE_INVALID, 'Invalid pairing code') and changes nothing,
\* whether the code is in the registry or not and whether it has expired or
\* not: any two such calls are answered alike.
WrongIdRevealsNothing ==
  \A c1 \in InputCodes, c2 \in InputCodes, s1 \in Sids, s2 \in Sids,
     ip \in CallerIps :
    LET r1 == completePairing(c1, s1, ip, nextToken)
        r2 == completePairing(c2, s2, ip, nextToken)
    IN (WrongId(c1, s1) /\ WrongId(c2, s2)) =>
         /\ completeErrorResponse(r1.out) = completeErrorResponse(r2.out)
         /\ completeErrorResponse(r1.out)
              = [status |-> "400", error |-> "Invalid pairing code",
                 code |-> ERROR_CODES.PAIRING_CODE_INVALID]
         /\ r1.codes = pairingCodes /\ r1.sess = sessions
         /\ r2.codes = pairingCodes /\ r2.sess = sessions

\* the registry holds an expired code while another code is not in it: a
\* wrong correlation id can be tried against a code that exists and has
\* expired and against one that does not exist
ExpiredAndAbsentCodes ==
  \E c1 \in GeneratedCodes, c2 \in GeneratedCodes :
    /\ c1 \in DOMAIN pairingCodes
    /\ pairingCodes[c1].expiresAt < now
    /\ c2 \notin DOMAIN pairingCodes
    /\ \E sid \in Sids : WrongId(c1, sid) /\ sid \in DOMAIN issued

(* random sources *)
\* C32: pairing codes, session tokens and session ids are drawn from a
\* cryptographically secure random source: once a pairing code has been
\* generated, the source it was drawn from is a secure one, and so are the
\* sources of tokens and ids.
SecureRandomOnly ==
  /\ draft # NoDraft => RandomSource.generatePairingCode \in SecureSources
  /\ RandomSource.generateToken \in SecureSources
  /\ RandomSource.generateSessionId \in SecureSources

(* eventual cleanup *)
Times == {k * TickMs : k \in 0..(MaxTicks + SettleTicks + 1)}

\* C33: with the sweep firing whenever it is due and time advancing, every
\* pairing code in the registry is eventually removed from it, every expired
\* session is eventually removed from the store, and every rate-limit window
\* whose resetAt has passed is eventually purged.
EventualCleanup ==
  /\ \A c \in StoreCodes, sid \in Sids :
       Registered(c, sid) ~> ~Registered(c, sid)
  /\ \A id \in Sids :
       (id \in DOMAIN sessions /\ sessions[id].expiresAt < now)
         ~> (id \notin DOMAIN sessions)
  /\ \A ip \in CallerIps, t \in Times :
       (/\ ip \in DOMAIN rateLimitMap
        /\ rateLimitMap[ip].resetAt = t
        /\ t < now)
         ~> ~(ip \in DOMAIN rateLimitMap /\ rateLimitMap[ip].resetAt = t)

\* at the end of the run the three maps are empty, after a pairing code was
\* left unconsumed, a session was created and an origin was counted
AllSweptAtTheEnd ==
  /\ now = (MaxTicks + SettleTicks) * TickMs
  /\ pairingCodes = EmptyMap /\ sessions = EmptyMap /\ rateLimitMap = EmptyMap
  /\ returned # {}
  /\ \E sid \in DOMAIN issued : sid \notin consumed

(* restart *)
\* C34: once revoke or revokeAll has returned and nothing is in flight, a
\* restart that reloads the sessions file does not bring a revoked session
\* back: after the reload validate of its token still returns null.
RevocationSurvivesRestart ==
  [][Restart => \A t \in revoked : (validateSession(t).out)' = "null"]_vars

(* all-or-nothing *)
\* C35: when completePairing ends with an error because its save was
\* rejected, the pairing code is still pending and the session it built is
\* not in the store.
CompleteAllOrNothing ==
  [][\A p \in inflight :
       (WriteFails(p) /\ p.op = "complete") =>
         /\ p.sid \notin DOMAIN sessions'
         /\ p.code \in DOMAIN pairingCodes'
         /\ pairingCodes'[p.code].sessionId = p.sid]_vars

(* frame of initiate *)
\* C36: a successful initiatePairing call leaves every pairing code that is
\* still pending as it was: the entry stays in the registry with the
\* correlation id its own initiate call handed out.
InitiateKeepsPending ==
  [][\A d \in DeviceNames, ip \in Ips, c \in GeneratedCodes :
       InitiatePairing(d, ip, c) =>
         \A k \in DOMAIN pairingCodes :
           ~(pairingCodes[k].expiresAt < now) =>
             /\ k \in DOMAIN pairingCodes'
             /\ pairingCodes'[k] = pairingCodes[k]]_vars

(* the session bound counts what is stored *)
\* the sessions of the store that have not expired (expiresAt >= now)
Unexpired == {id \in DOMAIN sessions : ~(sessions[id].expiresAt < now)}

\* C37: complete fails with SESSION_LIMIT_REACHED only when the number of
\* unexpired sessions is at least MaxSessions; sessions that have expired
\* but were not swept yet never make a pairing fail.
LimitCountsUnexpired ==
  \A c \in InputCodes, sid \in 1..MaxInitiates, ip \in CallerIps :
    completePairing(c, sid, ip, nextToken).out
        = ERROR_CODES.SESSION_LIMIT_REACHED
      => Cardinality(Unexpired) >= MaxSessions

(* what a refused request leaves behind *)
\* C38: a request that sessionAuth refuses for an address or user-agent
\* mismatch leaves the session as it was: lastUsedAt and expiresAt are the
\* same after the refused request as before it.
BindingRefusalTouchesNothing ==
  \A h \in AuthHeaders, ip \in ClientIps, ua \in ClientAgents :
    LET g == sessionAuth(h, ip, ua) IN
    (/\ g.found.out = "session"
     /\ \/ AddressMismatch(g.found, ip)
        \/ AgentMismatch(g.found, ua)
     /\ Refused(g.reply, ERROR_CODES.SESSION_INVALID))
      => /\ g.sess[g.id].lastUsedAt = sessions[g.id].lastUsedAt
         /\ g.sess[g.id].expiresAt = sessions[g.id].expiresAt

(* the optional guard against the strict guard *)
\* C39: optionalSessionAuth attaches a session context to a request only if
\* sessionAuth would accept the same request; a token presented from a
\* mismatching address or agent, with that binding enabled, gets no context.
OptionalAttachesOnlyAccepted ==
  \A h \in AuthHeaders, ip \in ClientIps, ua \in ClientAgents :
    optionalSessionAuth(h).reply.attached
      => sessionAuth(h, ip, ua).reply.next = 1

====
